---- MODULE Spec2Model ----
(***************************************************************************)
(* The record-store layer of BRRCS: SchemaValidator (core/data_model.py),  *)
(* FileLocker (core/file_locker.py), BackupManager (core/backup_manager.py)*)
(* and ExcelIO (core/excel_io.py), as a state machine over the shared      *)
(* filesystem (target file, lock marker, backup directory) and the clock.  *)
(***************************************************************************)
EXTENDS Integers, Sequences, FiniteSets, TLC

\* ------------------------------------------------------------------ bounds
NumProcs == 2       \* cooperating processes sharing the filesystem
MaxTime == 3        \* the clock runs over the seconds 0..MaxTime
ConcMaxTime == 2    \* ... over 0..ConcMaxTime in Spec
MaxCalls == 2       \* public operations started in one behaviour of Spec
SeqCalls == 2       \* ... of SpecSeq
BackupCalls == 4    \* ... of SpecBackup
LockCalls == 4      \* ... of SpecLock
ValidateCalls == 2  \* ... of SpecValidate
LiveCalls == 2      \* ... of SpecLive
RecoverCalls == 2   \* ... of SpecRecover
ProbeCalls == 2     \* ... of SpecProbe
timeout == 2        \* acquire_lock(timeout), in seconds (source default 5)
max_backups == 2    \* BackupManager.max_backups (source default 10)

Procs == 1..NumProcs
Times == 0..MaxTime

Range(s) == {s[i] : i \in DOMAIN s}
InSeq(x, s) == \E i \in DOMAIN s : s[i] = x

\* ------------------------------------------------------------------ values
\* A Python value: its type name and its text.
Str(s) == [t |-> "str", v |-> s]
PyInt(s) == [t |-> "int", v |-> s]
Float(s) == [t |-> "float", v |-> s]
NaN == [t |-> "float", v |-> "nan"]
None == [t |-> "NoneType", v |-> ""]
\* An empty worksheet cell.
Blank == [t |-> "blank", v |-> ""]

isinstance_str(x) == x.t = "str"
\* dropna() / pandas missing value.
isna(x) == x = NaN \/ x = None
\* Python truthiness of a value (not x).
truthy(x) == ~(x = None \/ x = Str("") \/ x = PyInt("0"))

\* ------------------------------------------------------------------ schema
AllColumnsSeq ==
    << "resident_id", "last_name", "first_name", "middle_name", "birth_date",
       "gender", "civil_status", "address", "purok", "contact_number",
       "email", "voter_id", "date_registered", "status" >>
REQUIRED_COLUMNS == Range(AllColumnsSeq)
OPTIONAL_COLUMNS == {"middle_name", "contact_number", "email", "voter_id"}

get_required_columns ==
    SelectSeq(AllColumnsSeq, LAMBDA c : c \notin OPTIONAL_COLUMNS)

\* ------------------------------------------------------------------ validator
\* A validate_headers that asks for every schema column.
validate_headers_all_columns(headers) ==
    LET missing == SelectSeq(AllColumnsSeq, LAMBDA c : ~InSeq(c, headers))
    IN  << missing = << >>, missing >>

\* <<is_valid, missing_columns>>
validate_headers(headers) ==
    LET missing == SelectSeq(get_required_columns, LAMBDA c : ~InSeq(c, headers))
    IN  << missing = << >>, missing >>

\* The values of one column of a DataFrame, as a set with their row indices.
Column(d, c) == {d.rows[i][c] : i \in DOMAIN d.rows}

\* <<is_valid, type_mismatches>>
validate_data_types(d) ==
    LET bad(c) == InSeq(c, d.columns)
                  /\ \E x \in Column(d, c) : ~isna(x) /\ ~isinstance_str(x)
        mism == SelectSeq(AllColumnsSeq, bad)
    IN  << mism = << >>, mism >>

\* A validate_record that stops at the first error it finds.
validate_record_first_error(record) ==
    LET miss(c) == c \notin DOMAIN record \/ ~truthy(record[c])
        badt(c) == c \in DOMAIN record /\ record[c] # None
                   /\ ~isinstance_str(record[c])
        e1 == SelectSeq(get_required_columns, miss)
        e2 == SelectSeq(AllColumnsSeq, badt)
        errors == [i \in 1..Len(e1) |-> << "Missing required field", e1[i] >>]
                  \o [i \in 1..Len(e2) |-> << "Invalid type for", e2[i] >>]
    IN  << errors = << >>, SubSeq(errors, 1, 1) >>

\* <<is_valid, errors>>: one "missing" error per required column absent or
\* falsy, then one "type" error per schema column holding a non-None non-str.
validate_record(record) ==
    LET miss(c) == c \notin DOMAIN record \/ ~truthy(record[c])
        badt(c) == c \in DOMAIN record /\ record[c] # None
                   /\ ~isinstance_str(record[c])
        e1 == SelectSeq(get_required_columns, miss)
        e2 == SelectSeq(AllColumnsSeq, badt)
        errors == [i \in 1..Len(e1) |-> << "Missing required field", e1[i] >>]
                  \o [i \in 1..Len(e2) |-> << "Invalid type for", e2[i] >>]
    IN  << errors = << >>, errors >>

\* ------------------------------------------------------------------ Excel
\* Texts pandas' reader takes for a missing value (keep_default_na), and
\* texts its type inference parses as a number.
NaStrings == {"", "NA", "N/A", "NULL", "NaN", "None", "n/a", "nan", "null"}
NumericStrings == {"7", "8"}

\* A DataFrame: its column labels in order and its rows, each a function
\* from the column labels to values.
DataFrame(columns, rows) == [columns |-> columns, rows |-> rows]
\* A workbook on disk: readable or not, header row, rows of cells.
Workbook(columns, rows) == [ok |-> TRUE, columns |-> columns, rows |-> rows]
CorruptBook == [ok |-> FALSE, columns |-> << >>, rows |-> << >>]

\* The cell openpyxl writes for a value: missing values and the empty string
\* leave the cell empty.
ToCell(x) == IF isna(x) \/ x = Str("") THEN Blank ELSE x

to_excel(d) ==
    Workbook(d.columns,
             [i \in DOMAIN d.rows |->
                [c \in DOMAIN d.rows[i] |-> ToCell(d.rows[i][c])]])

\* A cell the reader takes for missing.
CellIsNa(x) == x = Blank \/ (x.t = "str" /\ x.v \in NaStrings)
CellIsNumeric(x) == x.t \in {"int", "float"}
                    \/ (x.t = "str" /\ x.v \in NumericStrings)
\* The reader converts a column whose present cells all parse as numbers.
ColumnIsNumeric(f, c) ==
    /\ \E i \in DOMAIN f.rows : ~CellIsNa(f.rows[i][c])
    /\ \A i \in DOMAIN f.rows :
          CellIsNa(f.rows[i][c]) \/ CellIsNumeric(f.rows[i][c])
ColumnHasNa(f, c) == \E i \in DOMAIN f.rows : CellIsNa(f.rows[i][c])

FromCell(f, c, x) ==
    IF CellIsNa(x) THEN NaN
    ELSE IF ColumnIsNumeric(f, c)
         THEN (IF ColumnHasNa(f, c) \/ x.t = "float" THEN Float(x.v) ELSE PyInt(x.v))
         ELSE x

\* pd.read_excel of a readable workbook.
read_excel(f) ==
    DataFrame(f.columns,
              [i \in DOMAIN f.rows |->
                 [c \in DOMAIN f.rows[i] |-> FromCell(f, c, f.rows[i][c])]])

\* ------------------------------------------------------------------ state
VARIABLES
    now,          \* the clock, in whole seconds
    target,       \* the target file: [exists, mtime, data]
    lock_file,    \* the marker <target>.lock: [exists, pid]
    backups,      \* the backup directory: timestamp of the name -> [mtime, data]
    pc,           \* per process: the step of the operation it is in
    op,           \* per process: the public operation it last called
    arg,          \* per process: that call's arguments
    df,           \* per process: the DataFrame it holds
    start_time,   \* per process: start_time of the acquire_lock it is in
    ret,          \* per process: the value its last operation returned
    log,          \* per process: the last error its operation logged
    held,         \* per process: acquire_lock returned True, release_lock not yet called
    calls,        \* public operations that may still be started
    pre,          \* observer: the filesystem when the latest operation was
                  \* called and the process that called it, recorded when pre.on
    acq_timeout,  \* per process: the timeout of the acquire_lock it is in
    events,       \* observer, per process: the steps its latest operation
                  \* has taken, recorded when pre.on
    missing_columns, \* per process: the list its last validate_headers returned
    errors        \* per process: the list its last validate_record returned

vars == << now, target, lock_file, backups, pc, op, arg, df, start_time,
           ret, log, held, calls, pre, acq_timeout, events, missing_columns,
           errors >>
\* What the SchemaValidator called on its own handed back.
validated == << missing_columns, errors >>

NoFile == [exists |-> FALSE, mtime |-> 0, data |-> CorruptBook]
File(mtime, data) == [exists |-> TRUE, mtime |-> mtime, data |-> data]
NoMarker == [exists |-> FALSE, pid |-> 0]
Marker(p) == [exists |-> TRUE, pid |-> p]
NoDF == DataFrame(<< >>, << >>)
NoRecord == [c \in {} |-> None]
Args(id, data, d, path) == [id |-> id, data |-> data, df |-> d, path |-> path]
NoArgs == Args("", NoRecord, NoDF, 0)

\* ------------------------------------------------------------------ FileLocker
\* The outcomes of the probe of the target file: a missing file is never
\* locked; otherwise the OS-level lock (or an error while probing, which is
\* reported as locked) decides.
\* What may go wrong in one probe: nothing; os.open / get_osfhandle raises;
\* locking raises IOError (the file is held), and then os.close raises too;
\* locking raises another exception; the unlocking raises IOError; os.close
\* after the unlocking raises.
ProbeFaults ==
    { "none", "open", "held", "held, close fails", "locking", "unlocking",
      "close" }
\* The faults that end in the outer handler, which logs them.
ProbeLogged == { "open", "held, close fails", "locking", "close" }

\* An is_file_locked that takes the file for free once the lock test passed.
probe_free_after_lock_test(fault) ==
    IF ~target.exists THEN FALSE
    ELSE fault \in { "open", "held", "held, close fails", "locking" }

\* is_file_locked under a fault: a missing file is not locked and nothing is
\* opened; the inner handler (IOError) and the outer one (Exception) both
\* answer True.
probe(fault) ==
    IF ~target.exists THEN FALSE
    ELSE IF fault = "open" THEN TRUE
    ELSE IF fault \in { "held", "held, close fails" } THEN TRUE
    ELSE IF fault = "locking" THEN TRUE
    ELSE IF fault \in { "unlocking", "close" } THEN TRUE
    ELSE FALSE

is_file_locked == { probe(fault) : fault \in ProbeFaults }

\* A release_lock that reports the marker and leaves it in place.
release_lock_keeps_marker == << lock_file.exists, lock_file >>

\* A release_lock that reports success whether or not a marker was there.
release_lock_always_true == << TRUE, NoMarker >>

\* release_lock: <<return value, marker afterwards>>
release_lock == << lock_file.exists, NoMarker >>

\* ------------------------------------------------------------------ BackupManager
\* The snapshots an eviction run may delete, R: it deletes in ascending mtime
\* (ties in directory order) while more than max_backups are listed, and stops
\* at the first deletion that fails.
Evictions(b) ==
    LET k == IF Cardinality(DOMAIN b) > max_backups
             THEN Cardinality(DOMAIN b) - max_backups ELSE 0
    IN  { R \in SUBSET DOMAIN b :
            /\ Cardinality(R) <= k
            /\ \A r \in R : \A s \in DOMAIN b \ R : b[r].mtime <= b[s].mtime }
EvictionComplete(b, R) ==
    Cardinality(DOMAIN b) - Cardinality(R) <= max_backups

cleanup_old_backups(b, R) == [n \in DOMAIN b \ R |-> b[n]]

\* shutil.copy2(source_file, backup_path): contents and modification time.
CopyToBackup(b, name) ==
    [n \in DOMAIN b \cup {name} |->
        IF n = name THEN [mtime |-> target.mtime, data |-> target.data] ELSE b[n]]

\* A create_backup that does not look for the source file first.
create_backup_unchecked(copy_ok, R) ==
    IF ~copy_ok
    THEN [ok |-> FALSE, path |-> now, backups |-> backups,
          log |-> "backup failed"]
    ELSE [ok |-> TRUE, path |-> now,
          backups |-> cleanup_old_backups(CopyToBackup(backups, now), R),
          log |-> IF EvictionComplete(CopyToBackup(backups, now), R)
                  THEN "" ELSE "backup cleanup failed"]

\* create_backup: [ok, path, backups]; copy_ok is whether the copy succeeds,
\* R the snapshots the eviction run deletes.
create_backup(copy_ok, R) ==
    IF ~target.exists
    THEN [ok |-> FALSE, path |-> now, backups |-> backups,
          log |-> "source file not found"]
    ELSE IF ~copy_ok
    THEN [ok |-> FALSE, path |-> now, backups |-> backups,
          log |-> "backup failed"]
    ELSE [ok |-> TRUE, path |-> now,
          backups |-> cleanup_old_backups(CopyToBackup(backups, now), R),
          log |-> IF EvictionComplete(CopyToBackup(backups, now), R)
                  THEN "" ELSE "backup cleanup failed"]
CreateBackupChoices ==
    { << c, R >> : c \in BOOLEAN, R \in SUBSET Times }
BackupOutcomes ==
    { create_backup(x[1], x[2]) : x \in
        { y \in CreateBackupChoices :
            IF target.exists /\ y[1]
            THEN y[2] \in Evictions(CopyToBackup(backups, now))
            ELSE y[2] = {} } }

\* list_backups: the listings it may return, newest first by mtime.
list_backups ==
    { s \in [1..Cardinality(DOMAIN backups) -> DOMAIN backups] :
        /\ \A i, j \in DOMAIN s : i # j => s[i] # s[j]
        /\ \A i, j \in DOMAIN s : i < j => backups[s[i]].mtime >= backups[s[j]].mtime }

\* ------------------------------------------------------------------ ExcelIO
Set(f, p, v) == [f EXCEPT ![p] = v]
Outcome(ok, d, l) == [ok |-> ok, df |-> d, log |-> l]

\* A load_residents that leaves out the type check.
load_residents_untyped(locked) ==
    IF ~target.exists THEN Outcome(FALSE, NoDF, "file not found")
    ELSE IF locked THEN Outcome(FALSE, NoDF, "file is locked")
    ELSE IF ~target.data.ok THEN Outcome(FALSE, NoDF, "failed to load")
    ELSE LET d == read_excel(target.data)
         IN  IF ~validate_headers(d.columns)[1]
             THEN Outcome(FALSE, NoDF, "missing columns")
             ELSE Outcome(TRUE, d, "")

\* load_residents, given the probe's answer: the DataFrame, or None (ok FALSE).
load_residents(locked) ==
    IF ~target.exists THEN Outcome(FALSE, NoDF, "file not found")
    ELSE IF locked THEN Outcome(FALSE, NoDF, "file is locked")
    ELSE IF ~target.data.ok THEN Outcome(FALSE, NoDF, "failed to load")
    ELSE LET d == read_excel(target.data)
         IN  IF ~validate_headers(d.columns)[1]
             THEN Outcome(FALSE, NoDF, "missing columns")
             ELSE IF ~validate_data_types(d)[1]
             THEN Outcome(FALSE, NoDF, "type mismatches")
             ELSE Outcome(TRUE, d, "")

\* A save_residents that validates nothing.
save_validate_skipped(d) == ""

\* The validation save_residents starts with: the error it logs, "" if none.
save_validate(d) ==
    IF ~validate_headers(d.columns)[1] THEN "missing columns"
    ELSE IF ~validate_data_types(d)[1] THEN "type mismatches"
    ELSE ""

\* The keys of a record, in the order a dict lists them.
KeyOrder == AllColumnsSeq \o << "notes" >>

\* pd.concat([df, pd.DataFrame([record])], ignore_index=True)
concat(d, record) ==
    LET new  == SelectSeq(KeyOrder,
                   LAMBDA c : c \in DOMAIN record /\ ~InSeq(c, d.columns))
        cols == d.columns \o new
        n    == Len(d.rows)
    IN  DataFrame(cols,
          [i \in 1..(n + 1) |->
             [c \in Range(cols) |->
                IF i <= n
                THEN (IF c \in DOMAIN d.rows[i] THEN d.rows[i][c] ELSE NaN)
                ELSE (IF c \in DOMAIN record THEN record[c] ELSE NaN)]])

\* mask = df['resident_id'] == resident_id
mask(d, id) == {i \in DOMAIN d.rows : d.rows[i]["resident_id"] = Str(id)}

\* df.loc[mask, key] = value for every key of updated_data that is a column
loc_assign(d, id, data) ==
    DataFrame(d.columns,
      [i \in DOMAIN d.rows |->
         IF i \in mask(d, id)
         THEN [c \in DOMAIN d.rows[i] |->
                 IF c \in DOMAIN data THEN data[c] ELSE d.rows[i][c]]
         ELSE d.rows[i]])

\* df[~mask]
drop_mask(d, id) ==
    DataFrame(d.columns,
              SelectSeq(d.rows, LAMBDA r : r["resident_id"] # Str(id)))

\* A change that goes ahead whatever the resident_id.
mutate_unchecked(o, a, d) ==
    IF o = "add_resident" THEN Outcome(TRUE, concat(d, a.data), "")
    ELSE IF o = "update_resident"
    THEN Outcome(TRUE, loc_assign(d, a.id, a.data), "")
    ELSE Outcome(TRUE, drop_mask(d, a.id), "")

\* What add/update/delete do to the loaded DataFrame before they save it.
mutate(o, a, d) ==
    IF o = "add_resident"
    THEN IF a.data["resident_id"] \in Column(d, "resident_id")
         THEN Outcome(FALSE, d, "already exists")
         ELSE Outcome(TRUE, concat(d, a.data), "")
    ELSE IF mask(d, a.id) = {}
    THEN Outcome(FALSE, d, "not found")
    ELSE IF o = "update_resident"
    THEN Outcome(TRUE, loc_assign(d, a.id, a.data), "")
    ELSE Outcome(TRUE, drop_mask(d, a.id), "")

\* Bookkeeping of the call of a public operation.
Begin(p, name, a) ==
    /\ pc[p] = "idle"
    /\ calls > 0
    /\ calls' = calls - 1
    /\ pre' = IF pre.on
              THEN [on |-> TRUE, target |-> target, backups |-> backups, by |-> p]
              ELSE pre
    /\ df' = Set(df, p, a.df)
    /\ op' = Set(op, p, name)
    /\ arg' = Set(arg, p, a)

\* p moves to step s with the return value r and the logged error l.
Move(p, s, r, l) ==
    /\ pc' = Set(pc, p, s)
    /\ ret' = Set(ret, p, r)
    /\ log' = Set(log, p, l)

\* The operation of p returns r, having logged l.
Return(p, r, l) == Move(p, "idle", r, l)

\* p moves to step s.
Goto(p, s) ==
    /\ pc' = Set(pc, p, s)
    /\ UNCHANGED << ret, log >>

\* p, having been called, enters acquire_lock(t) at step s.
EnterAcquireWith(p, s, t) ==
    /\ Move(p, s, FALSE, "")
    /\ start_time' = Set(start_time, p, now)
    /\ acq_timeout' = Set(acq_timeout, p, t)

\* p, having been called, enters acquire_lock() at step s.
EnterAcquire(p, s) == EnterAcquireWith(p, s, timeout)

\* The observer's record of the steps of p: Start opens the record of a new
\* call with the steps es, Emit adds the steps es to it.
Start(p, es) == events' = IF pre.on THEN Set(events, p, es) ELSE events
Emit(p, es) == events' = IF pre.on THEN Set(events, p, events[p] \o es) ELSE events

\* Where save_residents and restore_backup return to.
AfterSave(p) == IF op[p] = "save_residents" THEN "idle" ELSE "rel"
AfterRestore(p) == IF op[p] = "restore_backup" THEN "idle" ELSE "rel"

fs == << target, lock_file, backups >>

\* ---- public operations: the call and what runs before the first file access
add_resident(p, record) ==
    /\ Begin(p, "add_resident", Args("", record, NoDF, 0))
    /\ IF ~validate_record(record)[1]
       THEN Return(p, FALSE, "invalid record") /\ UNCHANGED << start_time, acq_timeout >>
       ELSE EnterAcquire(p, "acq")
    /\ Start(p, << "validate" >>)
    /\ UNCHANGED << now, fs, held, validated >>

update_resident(p, id, data) ==
    /\ Begin(p, "update_resident", Args(id, data, NoDF, 0))
    /\ IF ~validate_record(data)[1]
       THEN Return(p, FALSE, "invalid record") /\ UNCHANGED << start_time, acq_timeout >>
       ELSE EnterAcquire(p, "acq")
    /\ Start(p, << "validate" >>)
    /\ UNCHANGED << now, fs, held, validated >>

delete_resident(p, id) ==
    /\ Begin(p, "delete_resident", Args(id, NoRecord, NoDF, 0))
    /\ EnterAcquire(p, "acq")
    /\ Start(p, << >>)
    /\ UNCHANGED << now, fs, held, validated >>

restore_from_backup(p, path) ==
    /\ Begin(p, "restore_from_backup", Args("", NoRecord, NoDF, path))
    /\ EnterAcquire(p, "acq")
    /\ Start(p, << >>)
    /\ UNCHANGED << now, fs, held, validated >>

save_residents(p, d) ==
    /\ Begin(p, "save_residents", Args("", NoRecord, d, 0))
    /\ IF save_validate(d) # ""
       THEN Return(p, FALSE, save_validate(d)) /\ UNCHANGED << start_time, acq_timeout >>
       ELSE EnterAcquire(p, "sv_acq")
    /\ Start(p, << "validate" >>)
    /\ UNCHANGED << now, fs, held, validated >>

\* A load_residents that takes the marker-based lock and keeps it.
load_call_takes_marker(p) ==
    /\ \E locked \in is_file_locked :
          LET r == load_residents(locked)
          IN  /\ Begin(p, "load_residents", Args("", NoRecord, r.df, 0))
              /\ Return(p, r.ok, r.log)
    /\ lock_file' = Marker(p)
    /\ Start(p, << "load" >>)
    /\ UNCHANGED << now, target, backups, start_time, held, acq_timeout, validated >>

\* ExcelIO.load_residents called on its own.
load_call(p) ==
    /\ \E locked \in is_file_locked :
          LET r == load_residents(locked)
          IN  /\ Begin(p, "load_residents", Args("", NoRecord, r.df, 0))
              /\ Return(p, r.ok, r.log)
    /\ Start(p, << "load" >>)
    /\ UNCHANGED << now, fs, start_time, held, acq_timeout, validated >>

\* SchemaValidator.validate_headers and validate_record called on their own:
\* of the pair they return, is_valid is the value returned and the list is
\* kept beside it.
validate_headers_call(p, headers) ==
    /\ Begin(p, "validate_headers", Args("", NoRecord, DataFrame(headers, << >>), 0))
    /\ Return(p, validate_headers(headers)[1],
              IF validate_headers(headers)[1] THEN "" ELSE "missing columns")
    /\ missing_columns' = Set(missing_columns, p, validate_headers(headers)[2])
    /\ Start(p, << "validate" >>)
    /\ UNCHANGED << now, fs, start_time, held, acq_timeout, errors >>

validate_record_call(p, record) ==
    /\ Begin(p, "validate_record", Args("", record, NoDF, 0))
    /\ Return(p, validate_record(record)[1], "")
    /\ errors' = Set(errors, p, validate_record(record)[2])
    /\ Start(p, << "validate" >>)
    /\ UNCHANGED << now, fs, start_time, held, acq_timeout, missing_columns >>

\* BackupManager.create_backup called on its own.
create_backup_call(p) ==
    /\ Begin(p, "create_backup", NoArgs)
    /\ \E o \in BackupOutcomes :
          /\ backups' = o.backups
          /\ Return(p, o.ok, o.log)
          /\ Start(p, << IF o.ok THEN "backup" ELSE "backup failed" >>)
    /\ UNCHANGED << now, target, lock_file, start_time, held, acq_timeout, validated >>

\* FileLocker.is_file_locked called on its own.
is_file_locked_call(p, fault) ==
    /\ Begin(p, "is_file_locked", Args(fault, NoRecord, NoDF, 0))
    /\ Return(p, probe(fault),
              IF target.exists /\ fault \in ProbeLogged
              THEN "error checking file lock" ELSE "")
    /\ Start(p, << "probe" >>)
    /\ UNCHANGED << now, fs, start_time, held, acq_timeout, validated >>

\* FileLocker.acquire_lock(t) and FileLocker.release_lock called on their own.
acquire_call(p, t) ==
    /\ Begin(p, "acquire_lock", NoArgs)
    /\ EnterAcquireWith(p, "acq", t)
    /\ Start(p, << >>)
    /\ UNCHANGED << now, fs, held, validated >>

release_call(p) ==
    /\ Begin(p, "release_lock", NoArgs)
    /\ lock_file' = release_lock[2]
    /\ held' = Set(held, p, FALSE)
    /\ Return(p, release_lock[1], "")
    /\ Start(p, << "release" >>)
    /\ UNCHANGED << now, target, backups, start_time, acq_timeout, validated >>

\* ---- with FileLocker(...): __enter__, the body of the block, __exit__
\* __enter__ calls acquire_lock() and raises IOError when it returns False.
with_enter(p) ==
    /\ Begin(p, "with", NoArgs)
    /\ EnterAcquire(p, "acq")
    /\ Start(p, << >>)
    /\ UNCHANGED << now, fs, held, validated >>

\* The ways a block is left.
BodyOutcomes == {"completed", "returned", "raised"}

with_body(p) ==
    /\ pc[p] = "body"
    /\ \E o \in BodyOutcomes : Move(p, "exit", o # "raised", o)
    /\ Emit(p, << "body" >>)
    /\ UNCHANGED << now, fs, op, arg, df, start_time, held, calls, pre, acq_timeout, validated >>

\* An __exit__ that keeps the lock when the body raised.
with_exit_unless_raised(p) ==
    /\ pc[p] = "exit"
    /\ lock_file' = IF log[p] = "raised" THEN lock_file ELSE release_lock[2]
    /\ held' = Set(held, p, FALSE)
    /\ Goto(p, "idle")
    /\ Emit(p, << "release" >>)
    /\ UNCHANGED << now, target, backups, op, arg, df, start_time, calls, pre, acq_timeout, validated >>

\* __exit__ calls release_lock, however the block was left.
with_exit(p) ==
    /\ pc[p] = "exit"
    /\ lock_file' = release_lock[2]
    /\ held' = Set(held, p, FALSE)
    /\ Goto(p, "idle")
    /\ Emit(p, << "release" >>)
    /\ UNCHANGED << now, target, backups, op, arg, df, start_time, calls, pre, acq_timeout, validated >>

\* An acquire_lock that writes the marker also when it gives up.
acquire_lock_marks_on_timeout(p) ==
    /\ pc[p] \in {"acq", "sv_acq"}
    /\ IF now - start_time[p] >= acq_timeout[p]
       THEN /\ IF pc[p] = "acq"
               THEN Move(p, "idle", FALSE, "could not acquire lock")
               ELSE Move(p, AfterSave(p), FALSE, "could not acquire lock for saving")
            /\ Emit(p, << "timeout" >>)
            /\ lock_file' = Marker(p)
            /\ UNCHANGED held
       ELSE \E locked \in is_file_locked :
              IF locked
              THEN UNCHANGED << pc, ret, log, lock_file, held, events >>
              ELSE /\ lock_file' = Marker(p)
                   /\ held' = Set(held, p, TRUE)
                   /\ Emit(p, << "acquire" >>)
                   /\ IF op[p] = "acquire_lock"
                      THEN Return(p, TRUE, "")
                      ELSE Goto(p, IF pc[p] = "sv_acq" THEN "bk"
                                   ELSE IF op[p] = "restore_from_backup" THEN "rs_bk"
                                   ELSE IF op[p] = "with" THEN "body"
                                   ELSE "load")
    /\ UNCHANGED << now, target, backups, op, arg, df, start_time, calls, pre, acq_timeout, validated >>

\* An acquire_lock whose loop has no deadline.
acquire_lock_never_gives_up(p) ==
    /\ pc[p] \in {"acq", "sv_acq"}
    /\ \E locked \in is_file_locked :
          IF locked
          THEN UNCHANGED << pc, ret, log, lock_file, held, events >>
          ELSE /\ lock_file' = Marker(p)
               /\ held' = Set(held, p, TRUE)
               /\ Emit(p, << "acquire" >>)
               /\ IF op[p] = "acquire_lock"
                  THEN Return(p, TRUE, "")
                  ELSE Goto(p, IF pc[p] = "sv_acq" THEN "bk"
                               ELSE IF op[p] = "restore_from_backup" THEN "rs_bk"
                               ELSE IF op[p] = "with" THEN "body"
                               ELSE "load")
    /\ UNCHANGED << now, target, backups, op, arg, df, start_time, calls, pre, acq_timeout, validated >>

\* ---- FileLocker.acquire_lock: one pass of its polling loop
acquire_lock(p) ==
    /\ pc[p] \in {"acq", "sv_acq"}
    /\ IF now - start_time[p] >= acq_timeout[p]
       THEN /\ IF pc[p] = "acq"
               THEN Move(p, "idle", FALSE, "could not acquire lock")
               ELSE Move(p, AfterSave(p), FALSE, "could not acquire lock for saving")
            /\ Emit(p, << "timeout" >>)
            /\ UNCHANGED << lock_file, held >>
       ELSE \E locked \in is_file_locked :
              IF locked
              THEN UNCHANGED << pc, ret, log, lock_file, held, events >>
              ELSE /\ lock_file' = Marker(p)
                   /\ held' = Set(held, p, TRUE)
                   /\ Emit(p, << "acquire" >>)
                   /\ IF op[p] = "acquire_lock"
                      THEN Return(p, TRUE, "")
                      ELSE Goto(p, IF pc[p] = "sv_acq" THEN "bk"
                                   ELSE IF op[p] = "restore_from_backup" THEN "rs_bk"
                                   ELSE IF op[p] = "with" THEN "body"
                                   ELSE "load")
    /\ UNCHANGED << now, target, backups, op, arg, df, start_time, calls, pre, acq_timeout, validated >>

\* ---- add / update / delete under the lock: load, change, start the save
load_and_mutate(p) ==
    /\ pc[p] = "load"
    /\ \E locked \in is_file_locked :
          LET r == load_residents(locked)
              m == mutate(op[p], arg[p], r.df)
          IN  IF ~r.ok
              THEN /\ Move(p, "rel", FALSE, r.log)
                   /\ Emit(p, << "load" >>)
                   /\ UNCHANGED << df, start_time >>
              ELSE IF ~m.ok
              THEN /\ Move(p, "rel", FALSE, m.log)
                   /\ Emit(p, << "load" >>)
                   /\ UNCHANGED << df, start_time >>
              ELSE IF save_validate(m.df) # ""
              THEN /\ Move(p, "rel", FALSE, save_validate(m.df))
                   /\ Emit(p, << "load", "mutate", "validate" >>)
                   /\ df' = Set(df, p, m.df)
                   /\ UNCHANGED start_time
              ELSE /\ df' = Set(df, p, m.df)
                   /\ Goto(p, "sv_acq")
                   /\ Emit(p, << "load", "mutate", "validate" >>)
                   /\ start_time' = Set(start_time, p, now)
    /\ UNCHANGED << now, fs, op, arg, held, calls, pre, acq_timeout, validated >>

\* A save_residents that goes on to write after a failed backup.
save_backup_unchecked(p) ==
    /\ pc[p] = "bk"
    /\ \E o \in BackupOutcomes :
          /\ backups' = o.backups
          /\ Move(p, "wr", FALSE, o.log)
          /\ Emit(p, << IF o.ok THEN "backup" ELSE "backup failed" >>)
    /\ UNCHANGED << now, target, lock_file, op, arg, df, start_time, held, calls, pre, acq_timeout, validated >>

\* ---- save_residents under its lock
save_backup(p) ==
    /\ pc[p] = "bk"
    /\ \E o \in BackupOutcomes :
          /\ backups' = o.backups
          /\ IF o.ok THEN Move(p, "wr", FALSE, o.log)
                     ELSE Move(p, "sv_rel", FALSE, "backup failed")
          /\ Emit(p, << IF o.ok THEN "backup" ELSE "backup failed" >>)
    /\ UNCHANGED << now, target, lock_file, op, arg, df, start_time, held, calls, pre, acq_timeout, validated >>

save_write(p) ==
    /\ pc[p] = "wr"
    /\ \/ /\ target' = File(now, to_excel(df[p]))
          /\ Move(p, "sv_rel", TRUE, log[p])
       \/ /\ target' \in {target, File(now, CorruptBook)}
          /\ Move(p, "sv_rel", FALSE, "failed to save")
    /\ Emit(p, << "write" >>)
    /\ UNCHANGED << now, lock_file, backups, op, arg, df, start_time, held, calls, pre, acq_timeout, validated >>

\* A save_residents whose finally leaves the marker in place.
save_release_keeps_marker(p) ==
    /\ pc[p] = "sv_rel"
    /\ held' = Set(held, p, FALSE)
    /\ Goto(p, AfterSave(p))
    /\ Emit(p, << "release" >>)
    /\ UNCHANGED << now, fs, op, arg, df, start_time, calls, pre, acq_timeout, validated >>

save_release(p) ==
    /\ pc[p] = "sv_rel"
    /\ lock_file' = release_lock[2]
    /\ held' = Set(held, p, FALSE)
    /\ Goto(p, AfterSave(p))
    /\ Emit(p, << "release" >>)
    /\ UNCHANGED << now, target, backups, op, arg, df, start_time, calls, pre, acq_timeout, validated >>

\* A restore_backup that takes its snapshot before it looks for the path.
restore_snapshot_before_check(p) ==
    /\ pc[p] = "rs_bk"
    /\ \E o \in BackupOutcomes :
          /\ backups' = o.backups
          /\ IF arg[p].path \notin DOMAIN backups
             THEN Move(p, AfterRestore(p), FALSE, "backup not found")
             ELSE Move(p, "rs_cp", FALSE, o.log)
          /\ Emit(p, << IF o.ok THEN "backup" ELSE "backup failed" >>)
    /\ UNCHANGED << now, target, lock_file, op, arg, df, start_time, held, calls, pre, acq_timeout, validated >>

\* ---- BackupManager.restore_backup
restore_snapshot(p) ==
    /\ pc[p] = "rs_bk"
    /\ IF arg[p].path \notin DOMAIN backups
       THEN /\ Move(p, AfterRestore(p), FALSE, "backup not found")
            /\ UNCHANGED << backups, events >>
       ELSE \E o \in BackupOutcomes :
              /\ backups' = o.backups
              /\ Move(p, "rs_cp", FALSE, o.log)
              /\ Emit(p, << IF o.ok THEN "backup" ELSE "backup failed" >>)
    /\ UNCHANGED << now, target, lock_file, op, arg, df, start_time, held, calls, pre, acq_timeout, validated >>

restore_copy(p) ==
    /\ pc[p] = "rs_cp"
    /\ IF arg[p].path \notin DOMAIN backups
       THEN /\ Move(p, AfterRestore(p), FALSE, "restore failed")
            /\ UNCHANGED << target, events >>
       ELSE /\ target' = File(backups[arg[p].path].mtime, backups[arg[p].path].data)
            /\ Move(p, AfterRestore(p), TRUE, log[p])
            /\ Emit(p, << "write" >>)
    /\ UNCHANGED << now, lock_file, backups, op, arg, df, start_time, held, calls, pre, acq_timeout, validated >>

\* ---- the finally of add / update / delete / restore_from_backup
final_release(p) ==
    /\ pc[p] = "rel"
    /\ lock_file' = release_lock[2]
    /\ held' = Set(held, p, FALSE)
    /\ Goto(p, "idle")
    /\ Emit(p, << "release" >>)
    /\ UNCHANGED << now, target, backups, op, arg, df, start_time, calls, pre, acq_timeout, validated >>

Tick(limit) ==
    /\ now < limit
    /\ now' = now + 1
    /\ UNCHANGED << fs, pc, op, arg, df, start_time, ret, log, held, calls, pre,
                    acq_timeout, events, validated >>

\* ------------------------------------------------------------------ inputs
\* A complete record: every schema column, middle_name as given.
Rec(id, m) ==
    [c \in REQUIRED_COLUMNS |->
        IF c = "resident_id" THEN Str(id)
        ELSE IF c = "middle_name" THEN m ELSE Str("x")]
\* A fragment: one field only.
Fragment(c, x) == [k \in {c} |-> x]

Ids == {"r1", "r2", "NA"}
AddInputs ==
    { Rec("r1", Str("x")), Rec("r2", Str("")), Rec("NA", Str("x")),
      Rec("r2", PyInt("7")), Fragment("resident_id", Str("r2")) }
UpdateInputs ==
    { Fragment("status", Str("y")), Rec("r2", Str("y")), Rec("r1", Str("NA")) }
Frame(rows) == DataFrame(AllColumnsSeq, rows)
SaveInputs ==
    { Frame(<< Rec("r1", Str("x")), Rec("r2", Str("y")) >>),
      Frame(<< Rec("r2", Str("")) >>),
      Frame(<< Rec("r1", Str("7")) >>),
      Frame(<< Rec("r1", PyInt("7")) >>),
      DataFrame(<< "resident_id" >>, << Fragment("resident_id", Str("r1")) >>) }
ConcAddInputs == { Rec("r1", Str("x")), Rec("r2", Str("x")) }
ConcSaveInputs == { Frame(<< Rec("r2", Str("y")) >>) }
BackupSaveInputs ==
    { Frame(<< Rec("r1", Str("y")) >>), Frame(<< Rec("r2", Str("y")) >>) }
InitTargets ==
    { NoFile, File(0, to_excel(Frame(<< >>))),
      File(0, to_excel(Frame(<< Rec("r1", Str("x")) >>))) }
\* A workbook made outside the program, lacking most of the schema's columns.
ForeignBook ==
    to_excel(DataFrame(<< "resident_id" >>, << Fragment("resident_id", Str("r1")) >>))
SeqInitTargets ==
    InitTargets
    \cup { File(0, to_excel(Frame(<< Rec("r1", Str("x")), Rec("r2", Str("x")) >>))),
           File(0, ForeignBook) }
BackupInitTargets == { File(0, to_excel(Frame(<< Rec("r1", Str("x")) >>))) }

\* An empty backup directory.
NoBackups == [k \in {} |-> [mtime |-> 0, data |-> CorruptBook]]

\* The state after construction at second t0: n calls to come, the target
\* file one of targets, the backup directory one of dirs.
InitFrom(n, t0, targets, dirs, observe) ==
    /\ now = t0
    /\ target \in targets
    /\ lock_file = NoMarker
    /\ backups \in dirs
    /\ pc = [p \in Procs |-> "idle"]
    /\ op = [p \in Procs |-> ""]
    /\ arg = [p \in Procs |-> NoArgs]
    /\ df = [p \in Procs |-> NoDF]
    /\ start_time = [p \in Procs |-> 0]
    /\ ret = [p \in Procs |-> FALSE]
    /\ log = [p \in Procs |-> ""]
    /\ held = [p \in Procs |-> FALSE]
    /\ calls = n
    /\ pre = [on |-> observe, target |-> target, backups |-> backups, by |-> 0]
    /\ acq_timeout = [p \in Procs |-> timeout]
    /\ events = [p \in Procs |-> << >>]
    /\ missing_columns = [p \in Procs |-> << >>]
    /\ errors = [p \in Procs |-> << >>]

InitWith(n, targets, observe) == InitFrom(n, 0, targets, {NoBackups}, observe)

\* The steps inside the operations of ExcelIO.
CrudSteps(p) ==
    \/ acquire_lock(p)
    \/ load_and_mutate(p)
    \/ save_backup(p)
    \/ save_write(p)
    \/ save_release(p)
    \/ final_release(p)

\* ---- Spec: the processes run the record operations concurrently
ConcCalls(p) ==
    \/ \E r \in ConcAddInputs : add_resident(p, r)
    \/ update_resident(p, "r1", Rec("r1", Str("y")))
    \/ delete_resident(p, "r1")
    \/ \E d \in ConcSaveInputs : save_residents(p, d)
    \/ load_call(p)

Init == InitWith(MaxCalls, InitTargets, FALSE)
Next == Tick(ConcMaxTime) \/ \E p \in Procs : (ConcCalls(p) \/ CrudSteps(p))
Spec == Init /\ [][Next]_vars

\* ---- SpecSeq: one process runs the record operations one after another
SeqCallsOf(p) ==
    \/ \E r \in AddInputs : add_resident(p, r)
    \/ \E i \in Ids, d \in UpdateInputs : update_resident(p, i, d)
    \/ \E i \in Ids : delete_resident(p, i)
    \/ \E d \in SaveInputs : save_residents(p, d)
    \/ \E n \in Times : restore_from_backup(p, n)
    \/ load_call(p)

\* The steps inside BackupManager.restore_backup.
RestoreSteps(p) ==
    \/ restore_snapshot(p)
    \/ restore_copy(p)

InitSeq == InitWith(SeqCalls, SeqInitTargets, TRUE)
NextSeq == Tick(MaxTime) \/ SeqCallsOf(1) \/ CrudSteps(1) \/ RestoreSteps(1)
SpecSeq == InitSeq /\ [][NextSeq]_vars

\* ---- SpecBackup: one process backs up, saves and restores
BackupCallsOf(p) ==
    \/ create_backup_call(p)
    \/ \E n \in Times : restore_from_backup(p, n)
    \/ \E d \in BackupSaveInputs : save_residents(p, d)

BackupSteps(p) ==
    \/ acquire_lock(p)
    \/ save_backup(p)
    \/ save_write(p)
    \/ save_release(p)
    \/ final_release(p)

InitBackup == InitWith(BackupCalls, BackupInitTargets, TRUE)
NextBackup == Tick(MaxTime) \/ BackupCallsOf(1) \/ BackupSteps(1) \/ RestoreSteps(1)
SpecBackup == InitBackup /\ [][NextBackup]_vars

\* ---- SpecRecover: as SpecBackup, from second 1, from a target file that
\* may be missing or have been put back from an older copy (last modified
\* before second 0), and a backup directory that may hold the snapshots of
\* seconds 0 and 1
RecoverInitTargets ==
    { NoFile,
      File(1, to_excel(Frame(<< Rec("r2", Str("y")) >>))),
      File(-1, to_excel(Frame(<< Rec("r2", Str("x")) >>))) }
RecoverDirs ==
    { NoBackups,
      [k \in {0} |-> [mtime |-> 0,
                      data |-> to_excel(Frame(<< Rec("r1", Str("x")) >>))]],
      [k \in {0, 1} |-> [mtime |-> k,
                         data |-> to_excel(Frame(<< Rec("r1", Str("x")) >>))]] }
InitRecover == InitFrom(RecoverCalls, 1, RecoverInitTargets, RecoverDirs, TRUE)
NextRecover == Tick(MaxTime) \/ BackupCallsOf(1) \/ BackupSteps(1) \/ RestoreSteps(1)
SpecRecover == InitRecover /\ [][NextRecover]_vars

\* ---- SpecLock: the processes call the FileLocker of one target directly
LockTimeouts == {0, timeout}
LockCallsOf(p) ==
    \/ \E t \in LockTimeouts : acquire_call(p, t)
    \/ release_call(p)
    \/ with_enter(p)

\* The steps inside the FileLocker operations.
LockSteps(p) ==
    \/ acquire_lock(p)
    \/ with_body(p)
    \/ with_exit(p)

InitLock == InitWith(LockCalls, InitTargets, TRUE)
NextLock == Tick(MaxTime) \/ \E p \in Procs : (LockCallsOf(p) \/ LockSteps(p))
SpecLock == InitLock /\ [][NextLock]_vars

\* ---- SpecValidate: the processes call the SchemaValidator directly
\* Header rows: the schema's, reordered, with an extra column, without the
\* optional columns, without one or two required columns, with none.
Reverse(q) == [i \in 1..Len(q) |-> q[Len(q) + 1 - i]]
HeaderInputs ==
    { AllColumnsSeq,
      Reverse(AllColumnsSeq),
      << "notes" >> \o AllColumnsSeq,
      get_required_columns,
      Reverse(get_required_columns) \o << "notes", "email" >>,
      SelectSeq(AllColumnsSeq, LAMBDA c : c # "status"),
      SelectSeq(Reverse(AllColumnsSeq), LAMBDA c : c \notin {"status", "purok"}),
      << "middle_name", "contact_number", "email", "voter_id", "notes" >>,
      << "resident_id" >>,
      << >> }
\* The record r with the value x in field c.
With(r, c, x) == [k \in DOMAIN r \cup {c} |-> IF k = c THEN x ELSE r[k]]
\* The record r without the field c.
Less(r, c) == [k \in DOMAIN r \ {c} |-> r[k]]
RecordInputs ==
    { Rec("r1", Str("x")),
      Rec("r2", Str("")),
      Rec("r1", None),
      Rec("r1", PyInt("7")),
      Rec("r1", NaN),
      Less(Rec("r1", Str("x")), "middle_name"),
      With(Rec("r1", Str("x")), "notes", PyInt("7")),
      With(Rec("r1", Str("x")), "status", None),
      With(Rec("r1", Str("x")), "status", Str("")),
      With(Rec("r1", Str("x")), "status", PyInt("0")),
      With(Rec("r1", Str("x")), "status", PyInt("7")),
      With(Rec("r1", Str("x")), "status", NaN),
      Less(Rec("r1", PyInt("7")), "status"),
      Less(Less(Rec("r1", Str("x")), "status"), "purok"),
      Fragment("resident_id", Str("r2")),
      NoRecord }

ValidateCallsOf(p) ==
    \/ \E h \in HeaderInputs : validate_headers_call(p, h)
    \/ \E r \in RecordInputs : validate_record_call(p, r)

InitValidate == InitWith(ValidateCalls, {NoFile}, FALSE)
NextValidate == \E p \in Procs : ValidateCallsOf(p)
SpecValidate == InitValidate /\ [][NextValidate]_vars

\* ---- SpecProbe: the processes call is_file_locked directly
InitProbe == InitWith(ProbeCalls, InitTargets, TRUE)
NextProbe == \E p \in Procs, fault \in ProbeFaults : is_file_locked_call(p, fault)
SpecProbe == InitProbe /\ [][NextProbe]_vars

\* ---- SpecLive: one process runs the record operations and acquire_lock,
\* the clock advances and the process keeps running
LiveCallsOf(p) ==
    \/ ConcCalls(p)
    \/ \E n \in Times : restore_from_backup(p, n)
    \/ \E t \in LockTimeouts : acquire_call(p, t)

\* p is in the polling loop of acquire_lock, its deadline not yet reached.
Waiting(p) ==
    pc[p] \in {"acq", "sv_acq"} /\ now - start_time[p] < acq_timeout[p]
\* The clock: it runs to MaxTime, and on for as long as a process waits.
Clock == Tick(MaxTime) \/ ((\E p \in Procs : Waiting(p)) /\ Tick(now + 1))
\* The steps after acquire_lock has returned.
LockedSteps(p) ==
    \/ load_and_mutate(p)
    \/ save_backup(p)
    \/ save_write(p)
    \/ save_release(p)
    \/ final_release(p)
    \/ RestoreSteps(p)

InitLive == InitWith(LiveCalls, InitTargets, FALSE)
NextLive == Clock \/ LiveCallsOf(1) \/ CrudSteps(1) \/ RestoreSteps(1)
\* The clock advances; a pass of the polling loop that did not obtain the
\* lock is followed by the next test of the deadline; an operation that is
\* past acquire_lock runs its next statement.  Nothing makes the probe ever
\* answer "not locked".
Fairness ==
    /\ WF_vars(Clock)
    /\ WF_vars(acquire_lock(1) /\ lock_file' = lock_file)
    /\ WF_vars(LockedSteps(1))
SpecLive == InitLive /\ [][NextLive]_vars /\ Fairness

\* ------------------------------------------------------------------ claims
\* The resident_id cells of a workbook, and the rows holding the id.
DiskIds(f) == {f.rows[i]["resident_id"] : i \in DOMAIN f.rows}
Returned(p, name) == pc[p] = "idle" /\ op[p] = name

\* C1: of two processes in acquire_lock on the same target, at most one has
\* had it return True and not yet called release_lock.
C1_AtMostOneHolder == Cardinality({p \in Procs : held[p]}) <= 1

\* C2: when two processes have each run one add_resident, with distinct ids,
\* and both returned success, the dataset on disk holds both new records.
C2_NoLostUpdate ==
    ( /\ calls = MaxCalls - 2
      /\ \A p \in {1, 2} : Returned(p, "add_resident") /\ ret[p]
      /\ arg[1].data["resident_id"] # arg[2].data["resident_id"] )
    => \A p \in {1, 2} : arg[p].data["resident_id"] \in DiskIds(target.data)

\* C3: the resident_id cells of the dataset on disk are pairwise distinct.
C3_UniqueIds ==
    (target.exists /\ target.data.ok)
    => \A i, j \in DOMAIN target.data.rows :
          i # j => target.data.rows[i]["resident_id"]
                   # target.data.rows[j]["resident_id"]

\* The workbook f with the fields of data written into the rows of id.
Merged(f, id, data) ==
    Workbook(f.columns,
      [i \in DOMAIN f.rows |->
         IF f.rows[i]["resident_id"] = Str(id)
         THEN [c \in DOMAIN f.rows[i] |->
                 IF c \in DOMAIN data THEN data[c] ELSE f.rows[i][c]]
         ELSE f.rows[i]])

\* C4: update_resident(id, {field: v}) for an id on disk returns success and
\* leaves the dataset as it was but for that field of that record.
C4_UpdateMerge ==
    ( /\ Returned(1, "update_resident")
      /\ Cardinality(DOMAIN arg[1].data) = 1
      /\ pre.target.exists /\ pre.target.data.ok
      /\ Str(arg[1].id) \in DiskIds(pre.target.data) )
    => ( /\ ret[1]
         /\ target.data = Merged(pre.target.data, arg[1].id, arg[1].data) )

\* C5: add_resident of a valid record whose resident_id is on disk returns
\* failure and leaves the target file as it was.
C5_DuplicateRejected ==
    ( /\ Returned(1, "add_resident")
      /\ validate_record(arg[1].data)[1]
      /\ pre.target.exists /\ pre.target.data.ok
      /\ arg[1].data["resident_id"] \in DiskIds(pre.target.data) )
    => (~ret[1] /\ target = pre.target)

\* A successful create_backup call whose eviction run completed.
CreateBackupOk ==
    /\ calls' # calls
    /\ op'[1] = "create_backup"
    /\ ret'[1]
    /\ log'[1] = ""
Min(a, b) == IF a < b THEN a ELSE b

\* C6: every successful create_backup adds one snapshot and then keeps at
\* most max_backups of them, evicting only snapshots created before every
\* snapshot it keeps (so max_backups + 1 calls leave the max_backups newest).
C6_Retention ==
    [][ CreateBackupOk =>
          /\ Cardinality(DOMAIN backups')
               = Min(Cardinality(DOMAIN backups) + 1, max_backups)
          /\ \A e \in (DOMAIN backups \cup {now}) \ DOMAIN backups' :
                \A k \in DOMAIN backups' : e < k ]_vars

\* C7: when restore_from_backup has returned success, some snapshot holds
\* what the target file held just before the restore.
C7_RestoreSafety ==
    ( /\ Returned(1, "restore_from_backup")
      /\ ret[1]
      /\ pre.target.exists )
    => \E n \in DOMAIN backups : backups[n].data = pre.target.data

\* No two of the snapshots b and the file t share a modification time.
DistinctMtimes(b, t) ==
    /\ \A m, n \in DOMAIN b : m # n => b[m].mtime # b[n].mtime
    /\ \A n \in DOMAIN b : b[n].mtime # t.mtime

\* C8: restore_from_backup(p) of a snapshot p that exists at the call, the
\* lock obtained, returns success and leaves the target file with what p held
\* at the call (stated for the calls where no deletion or copy fails and no
\* two files share a modification time).
C8_RestoreContent ==
    ( /\ Returned(1, "restore_from_backup")
      /\ arg[1].path \in DOMAIN pre.backups
      /\ DistinctMtimes(pre.backups, pre.target)
      /\ log[1] \in {"", "restore failed"} )
    => ( /\ ret[1]
         /\ target.data = pre.backups[arg[1].path].data )

\* A mutating operation returned failure from a step after its acquire_lock.
Mutating ==
    { "save_residents", "add_resident", "update_resident", "delete_resident",
      "restore_from_backup" }
FailedAfterLock(p) ==
    /\ pc[p] = "idle"
    /\ op[p] \in Mutating
    /\ ~ret[p]
    /\ IF op[p] = "save_residents"
       THEN log[p] \in {"backup failed", "failed to save"}
       ELSE log[p] \notin {"invalid record", "could not acquire lock"}

C10_RoundTrip ==
    [][ ( /\ Returned(1, "save_residents") /\ ret[1]
          /\ op'[1] = "load_residents"
          /\ log'[1] # "file is locked" )
        => (ret'[1] /\ df'[1] = arg[1].df) ]_vars

\* How often the step e occurs in the steps es, and the record operations.
Count(es, e) == Cardinality({i \in DOMAIN es : es[i] = e})
Crud == {"add_resident", "update_resident", "delete_resident"}

\* C11: an add_resident, update_resident or delete_resident call that got as
\* far as writing has acquired the lock once and released it once.
C11_OneLockHold ==
    ( /\ pc[1] = "idle" /\ op[1] \in Crud
      /\ InSeq("write", events[1]) )
    => ( /\ Count(events[1], "acquire") = 1
         /\ Count(events[1], "release") = 1 )

\* The steps of the protocol among the steps es, in their order.
ProtocolSteps(es) ==
    SelectSeq(es, LAMBDA e :
        e \in {"validate", "acquire", "backup", "write", "release"})

\* C12: a save_residents, add_resident, update_resident or delete_resident
\* call that succeeded took the steps validate, acquire, backup, write,
\* release, in that order and once each.
C12_ProtocolOrder ==
    ( /\ pc[1] = "idle" /\ op[1] \in Crud \cup {"save_residents"}
      /\ ret[1] )
    => ProtocolSteps(events[1])
         = << "validate", "acquire", "backup", "write", "release" >>

\* The call of process 1 is one the code rejects for its record
\* (validation error) or for its resident_id (identity error: the id of an
\* add is in the loaded dataset, the id of an update or delete is not).
ValidationError ==
    /\ op[1] \in {"add_resident", "update_resident"}
    /\ ~validate_record(arg[1].data)[1]
IdentityError ==
    /\ op[1] \in Crud
    /\ op[1] # "delete_resident" => validate_record(arg[1].data)[1]
    /\ pre.target.exists /\ pre.target.data.ok
    /\ LET d == read_excel(pre.target.data)
       IN  /\ validate_headers(d.columns)[1]
           /\ IF op[1] = "add_resident"
              THEN arg[1].data["resident_id"] \in Column(d, "resident_id")
              ELSE mask(d, arg[1].id) = {}

C14_BackupBeforeWrite ==
    [][ target' # target
        => ( /\ target.exists
             /\ \E n \in DOMAIN backups : backups[n].data = target.data ) ]_vars

\* C15: a snapshot file keeps its contents for as long as it exists.
C15_SnapshotImmutable ==
    [][ \A n \in DOMAIN backups \cap DOMAIN backups' :
           backups'[n].data = backups[n].data ]_vars

\* p is between an acquire_lock that returned True and the release_lock
\* that matches it.
Holding(p) == Count(events[p], "acquire") > Count(events[p], "release")

\* C16: the marker exists exactly while some process is between a successful
\* acquire_lock and its matching release_lock, and names that process.
C16_MarkerIffHeld ==
    /\ lock_file.exists <=> \E p \in Procs : Holding(p)
    /\ lock_file.exists => Holding(lock_file.pid)

\* The step is an acquire_lock of p returning True, a release_lock of p.
Acquired(p) == events'[p] = Append(events[p], "acquire")
Released(p) == events'[p] = Append(events[p], "release")

\* C17: acquire_lock returns True only while the marker is absent, and the
\* marker changes only from absent to present by such an acquire_lock and
\* from present to absent by a release_lock.
C17_LockStateMachine ==
    [][ /\ Acquired(1) => ~lock_file.exists
        /\ lock_file' # lock_file
             => \/ Acquired(1) /\ ~lock_file.exists /\ lock_file'.exists
                \/ Released(1) /\ lock_file.exists /\ ~lock_file'.exists ]_vars

\* The dataset handed to save_residents by process 1 fails a validation.
InvalidDataset ==
    \/ ~validate_headers(arg[1].df.columns)[1]
    \/ ~validate_data_types(arg[1].df)[1]

\* C18: save_residents of a dataset that fails header or type validation
\* returns failure having created no marker and no snapshot and left the
\* target file as it was.
C18_InvalidSaveRejected ==
    (Returned(1, "save_residents") /\ InvalidDataset)
    => ( /\ ~ret[1]
         /\ events[1] = << "validate" >>
         /\ fs = << pre.target, NoMarker, pre.backups >> )
C18_Witness ==
    /\ Returned(1, "save_residents") /\ InvalidDataset
    /\ log[1] = "type mismatches"
    /\ pre.target.exists

\* C19: when create_backup has failed inside save_residents, the save
\* returns failure and the target file is as it was before the call.
C19_BackupFailureAborts ==
    (pc[1] = "idle" /\ InSeq("backup failed", events[1])
       /\ op[1] \in Crud \cup {"save_residents"})
    => ( /\ ~ret[1]
         /\ ~InSeq("write", events[1])
         /\ target = pre.target )
C19_Witness ==
    /\ Returned(1, "save_residents")
    /\ events[1] = << "validate", "acquire", "backup failed", "release" >>
    /\ pre.target.exists

\* C20: an acquire_lock whose timeout has elapsed (at once when the timeout
\* is 0) with no poll finding the file free returns False and leaves the
\* marker as it is; any earlier return is a True.
C20_TimeoutNoMarker ==
    [][ \A p \in Procs :
          (op[p] = "acquire_lock" /\ pc[p] = "acq" /\ pc'[p] = "idle")
          => IF now - start_time[p] >= acq_timeout[p]
             THEN ~ret'[p] /\ lock_file' = lock_file /\ held' = held
             ELSE ret'[p] ]_vars
C20_Witness ==
    /\ Returned(1, "acquire_lock") /\ ~ret[1] /\ acq_timeout[1] = timeout
    /\ Returned(2, "acquire_lock") /\ ~ret[2] /\ acq_timeout[2] = 0
    /\ events[1] = << "timeout" >> /\ events[2] = << "timeout" >>
    /\ target.exists /\ ~lock_file.exists

WellFormed(d) ==
    /\ \A c \in Range(get_required_columns) : InSeq(c, d.columns)
    /\ \A c \in REQUIRED_COLUMNS : InSeq(c, d.columns) =>
          \A x \in Column(d, c) : isna(x) \/ isinstance_str(x)
C23_LoadedIsValid ==
    \A p \in Procs : Returned(p, "load_residents") =>
        /\ IF ret[p] THEN arg[p].df # NoDF /\ WellFormed(arg[p].df)
                     ELSE arg[p].df = NoDF
        /\ ( /\ target.exists /\ target.data.ok
             /\ ~WellFormed(read_excel(target.data)) ) => ~ret[p]
C23_Witness ==
    /\ Returned(1, "load_residents") /\ ret[1]
    /\ Len(arg[1].df.rows) = 2
    /\ \E i \in 1..2 : arg[1].df.rows[i]["middle_name"] = NaN

\* The call of process 1 met no failure of its surroundings: no lock
\* timeout, no locked or unreadable target, no failed backup or write.
NoEnvFailure ==
    /\ ~InSeq("timeout", events[1])
    /\ ~InSeq("backup failed", events[1])
    /\ log[1] \notin {"file is locked", "failed to load", "failed to save"}
\* The dataset on disk before the call of process 1 is one load_residents
\* accepts.
PreLoadable ==
    /\ pre.target.exists /\ pre.target.data.ok
    /\ WellFormed(read_excel(pre.target.data))
\* The workbook f without the rows of id, the others in their order.
Without(f, id) ==
    Workbook(f.columns, SelectSeq(f.rows, LAMBDA r : r["resident_id"] # Str(id)))

\* C24: delete_resident(id) on a dataset holding id returns success and
\* leaves on disk the previous dataset without the records of that id, the
\* others unchanged and in order; for an id not on disk it returns failure
\* and leaves the target file as it was.
C24_DeleteEffect ==
    ( /\ Returned(1, "delete_resident")
      /\ PreLoadable /\ NoEnvFailure )
    => IF Str(arg[1].id) \in DiskIds(pre.target.data)
       THEN ret[1] /\ target.exists
            /\ target.data = Without(pre.target.data, arg[1].id)
       ELSE ~ret[1] /\ target = pre.target

\* The workbook f with the record appended as its last row.
Appended(f, record) ==
    Workbook(f.columns,
             Append(f.rows, [c \in DOMAIN record |-> ToCell(record[c])]))

\* C25: add_resident of a record that passes validate_record and whose
\* resident_id is not on disk returns success, lock and backup permitting,
\* and leaves on disk the previous dataset, unchanged, with the record
\* appended as its last row.
C25_AddEffect ==
    ( /\ Returned(1, "add_resident")
      /\ validate_record(arg[1].data)[1]
      /\ PreLoadable /\ NoEnvFailure
      /\ arg[1].data["resident_id"] \notin DiskIds(pre.target.data) )
    => ( /\ ret[1] /\ target.exists
         /\ target.data = Appended(pre.target.data, arg[1].data) )

\* What the operation of p handed back to its caller: the DataFrame or None
\* for load_residents, the boolean for the others.
Result(p) == IF op[p] = "load_residents" THEN << arg[p].df >> ELSE << ret[p] >>

\* C26: two calls of the same operation that failed for different reasons
\* (the errors they logged differ) returned different results.
C26_FailureKinds ==
    \A p, q \in Procs :
        ( /\ pc[p] = "idle" /\ pc[q] = "idle"
          /\ op[p] # "" /\ op[p] = op[q]
          /\ ~ret[p] /\ ~ret[q]
          /\ log[p] # log[q] )
        => Result(p) # Result(q)

\* A lock, backup, read or write step of the call of process 1 failed.
StepFailed ==
    \/ InSeq("timeout", events[1])
    \/ InSeq("backup failed", events[1])
    \/ log[1] \in {"file not found", "file is locked", "failed to load",
                   "failed to save", "restore failed"}

\* C27: an operation in which a lock, backup, read or write step failed
\* returns a failure value.
C27_FailuresReturned ==
    (pc[1] = "idle" /\ op[1] # "" /\ StepFailed) => ~ret[1]

\* The required columns, and the set of the elements of a duplicate-free list.
Required == REQUIRED_COLUMNS \ OPTIONAL_COLUMNS
ListsExactly(q, S) == Range(q) = S /\ Len(q) = Cardinality(S)

\* C28: validate_headers(columns) answers ok exactly when every required
\* column is among columns, whatever their order and whatever else is
\* there, and its second result lists exactly the required columns that are
\* not.
C28_HeadersExact ==
    \A p \in Procs : Returned(p, "validate_headers") =>
        LET columns == Range(arg[p].df.columns)
        IN  /\ ret[p] <=> (Required \subseteq columns)
            /\ ListsExactly(missing_columns[p], Required \ columns)
C28_Witness ==
    /\ Returned(1, "validate_headers") /\ ret[1] /\ missing_columns[1] = << >>
    /\ arg[1].df.columns = Reverse(get_required_columns) \o << "notes", "email" >>
    /\ Returned(2, "validate_headers") /\ ~ret[2]
    /\ missing_columns[2] = << "purok", "status" >>

\* A value counts as empty; the required-field and the type violations of a
\* record, the latter with None counted as a violation or not.
Empty(x) == x = None \/ x = Str("")
MissingIn(record) ==
    {c \in Required : c \notin DOMAIN record \/ Empty(record[c])}
MistypedIn(record, noneOk) ==
    {c \in REQUIRED_COLUMNS \cap DOMAIN record :
        ~isinstance_str(record[c]) /\ ~(noneOk /\ record[c] = None)}
\* The entries of the error list that report kind k for column c.
EntriesFor(es, k, c) == {i \in DOMAIN es : es[i] = << k, c >>}

\* C29 as stated: validate_record answers ok exactly when every required
\* column is present and non-empty and every present schema column holds a
\* value of its declared type.
C29_RecordExact ==
    \A p \in Procs : Returned(p, "validate_record") =>
        ( ret[p] <=> ( /\ MissingIn(arg[p].data) = {}
                       /\ MistypedIn(arg[p].data, FALSE) = {} ) )

\* C29 amended: validate_record answers ok exactly when every required
\* column is present and non-empty and every present schema column holds
\* None or a value of its declared type; the error list has one entry for
\* every such violation.
C29_RecordExactButNone ==
    \A p \in Procs : Returned(p, "validate_record") =>
        LET record == arg[p].data
        IN  /\ ret[p] <=> ( /\ MissingIn(record) = {}
                             /\ MistypedIn(record, TRUE) = {} )
            /\ \A c \in MissingIn(record) :
                  Cardinality(EntriesFor(errors[p], "Missing required field", c)) = 1
            /\ \A c \in MistypedIn(record, TRUE) :
                  Cardinality(EntriesFor(errors[p], "Invalid type for", c)) = 1
C29_Witness ==
    /\ Returned(1, "validate_record") /\ ~ret[1]
    /\ arg[1].data = Less(Rec("r1", PyInt("7")), "status")
    /\ errors[1] = << << "Missing required field", "status" >>,
                      << "Invalid type for", "middle_name" >> >>
    /\ Returned(2, "validate_record") /\ ret[2]
    /\ arg[2].data = Rec("r1", None)

\* C30: with the clock advancing, an acquire_lock call that has begun
\* returns, also when the probe answers "locked" for ever, and so every
\* operation that has begun returns.
C30_Terminates == (pc[1] # "idle") ~> (pc[1] = "idle")
C30_Witness ==
    /\ Returned(1, "acquire_lock") /\ ~ret[1]
    /\ target.exists /\ ~lock_file.exists
    /\ acq_timeout[1] = timeout
    /\ start_time[1] = MaxTime /\ now = MaxTime + timeout

\* C31: a call of load_residents, and the load_residents inside add, update
\* and delete, leaves the marker, the snapshots and the target file as they
\* were, whatever it returns.
C31_LoadFrame ==
    [][ \A p \in Procs :
          ( \/ calls' # calls /\ pre'.by = p /\ op'[p] = "load_residents"
            \/ pc[p] = "load" /\ pc'[p] # "load" )
          => fs' = fs ]_vars
C31_Witness ==
    /\ Returned(1, "load_residents") /\ ~ret[1]
    /\ log[1] = "type mismatches"
    /\ target.exists /\ DOMAIN backups # {} /\ ~lock_file.exists

\* A create_backup call of process 1 returns with this step.
CreateBackupReturns == calls' # calls /\ op'[1] = "create_backup"

C33_NoSourceNoBackup ==
    [][ (CreateBackupReturns /\ ~target.exists)
        => (~ret'[1] /\ backups' = backups) ]_vars
C33_Witness ==
    /\ Returned(1, "create_backup") /\ ~ret[1]
    /\ log[1] = "source file not found"
    /\ ~target.exists /\ DOMAIN backups = {0}

\* C34: restore_backup of a path that does not exist returns False, takes
\* no snapshot and leaves the target file and the snapshots as they were.
C34_MissingPathRejected ==
    [][ ( /\ pc[1] = "rs_bk" /\ pc'[1] # "rs_bk"
          /\ arg[1].path \notin DOMAIN backups )
        => ( /\ ~ret'[1] /\ pc'[1] = AfterRestore(1)
             /\ events'[1] = events[1]
             /\ target' = target /\ backups' = backups ) ]_vars
C34_Witness ==
    /\ Returned(1, "restore_from_backup") /\ ~ret[1]
    /\ log[1] = "backup not found"
    /\ arg[1].path \notin DOMAIN backups
    /\ events[1] = << "acquire", "release" >>
    /\ target.exists /\ DOMAIN backups = {0}

\* C35: is_file_locked answers True whenever something went wrong while it
\* opened or probed the target file; it returns in every case.
C35_ProbeFailSafe ==
    \A p \in Procs : Returned(p, "is_file_locked") =>
        /\ ret[p] \in BOOLEAN
        /\ (target.exists /\ arg[p].id # "none") => ret[p]
C35_Witness ==
    /\ Returned(1, "is_file_locked") /\ ret[1] /\ arg[1].id = "close"
    /\ log[1] = "error checking file lock"
    /\ Returned(2, "is_file_locked") /\ ~ret[2] /\ arg[2].id = "none"
    /\ target.exists

\* C36: when create_backup returns True, the snapshot it created exists
\* (here: when no snapshot has the modification time of the target file or
\* of another snapshot, so that the order of eviction is determined).
C36_FreshSnapshotKept ==
    [][ (CreateBackupReturns /\ ret'[1] /\ DistinctMtimes(backups, target))
        => now \in DOMAIN backups' ]_vars

====
